---- MODULE Spec2Model ----
(***************************************************************************)
(* Model of the reverse proxy in src/src/main.rs: one invocation of        *)
(* proxy_handler under a fixed configuration, split at its call and await  *)
(* boundaries (compose URL, build_proxy_request, send, bytes + return).    *)
(*                                                                         *)
(* Text whose characters the code inspects (URLs) is a sequence of         *)
(* one-character strings; header values and bodies are sequences of        *)
(* bytes; header names and messages are only compared and are strings.     *)
(* Header names are HeaderName values, which are lower case by             *)
(* construction, so the case-insensitive comparison `key != "host"` is     *)
(* equality on them.                                                       *)
(* The error categories of the source are Chinese string literals; the     *)
(* model writes them in English:                                           *)
(*   "request build failed"           for  请求构建失败                    *)
(*   "proxy request failed"           for  代理请求失败                    *)
(*   "response body read error"       for  读取响应体错误                  *)
(*   "invalid request header"         for  无效的请求头                    *)
(*   "response body conversion error" for  响应体转换错误                  *)
(*   "configuration error"            for  配置错误                        *)
(***************************************************************************)
EXTENDS Integers, Sequences, FiniteSets, TLC

VARIABLES
    config,       \* AppConfig: target.{protocol,host,port}, proxy.path_prefix
    pc,           \* position of the handler
    req,          \* the inbound HttpRequest (uri, headers), NoValue when not held
    backend_url,  \* the composed target URL string
    proxy_req,    \* the reqwest::RequestBuilder returned by build_proxy_request
    upstream,     \* status and headers of the reqwest::Response
    client_resp,  \* the HttpResponseBuilder: status and headers inserted so far
    bytes,        \* the upstream body read by response.bytes(), NoValue before
    err,          \* the ProxyError the handler returned
    ran,          \* the stages that have run, in order
    sendCount,    \* number of requests handed to the outbound client
    responses     \* the responses delivered to the caller

vars == <<config, pc, req, backend_url, proxy_req, upstream, client_resp,
          bytes, err, ran, sendCount, responses>>

\* ------------------------------------------------------------------ bounds
MaxHeaders == 2
MaxRespHeaders == 2
MaxBody == 2

NoValue == [none |-> TRUE]

\* ------------------------------------------------------------ text helpers
Letters == {"a","b","c","d","e","f","g","h","i","j","k","l","m","n","o","p",
            "q","r","s","t","u","v","w","x","y","z"}
DigitChars == <<"0","1","2","3","4","5","6","7","8","9">>
Digits == {DigitChars[i] : i \in 1..10}

RECURSIVE ToDec(_)
\* Display of a u16: its decimal digits, no sign, no padding.
ToDec(n) ==
    IF n < 10 THEN <<DigitChars[n + 1]>>
    ELSE ToDec(n \div 10) \o <<DigitChars[(n % 10) + 1]>>

\* Index of the first element of s that is in the set cs, 0 when there is none.
IndexOfAny(s, cs) ==
    IF \E i \in 1..Len(s) : s[i] \in cs
    THEN CHOOSE i \in 1..Len(s) : s[i] \in cs /\ \A j \in 1..(i - 1) : s[j] \notin cs
    ELSE 0

\* Index of the last element of s that is in the set cs, 0 when there is none.
LastIndexOfAny(s, cs) ==
    IF \E i \in 1..Len(s) : s[i] \in cs
    THEN CHOOSE i \in 1..Len(s) : s[i] \in cs /\ \A j \in (i + 1)..Len(s) : s[j] \notin cs
    ELSE 0

IsPrefixOf(p, s) == Len(p) <= Len(s) /\ SubSeq(s, 1, Len(p)) = p

Tail_From(s, i) == SubSeq(s, i, Len(s))

SeqsUpTo(S, n) == UNION {[1..k -> S] : k \in 0..n}

\* ------------------------------------------------------------ input values
S_http    == <<"h","t","t","p">>
S_backend == <<"b","a","c","k","e","n","d">>
S_api     == <<"/","a","p","i">>

\* target.{protocol,host,port} and proxy.path_prefix as loaded at startup.
Targets ==
    { [protocol |-> S_http, host |-> S_backend, port |-> 9000],
      [protocol |-> S_http, host |-> <<>>,      port |-> 9000],
      [protocol |-> <<>>,   host |-> S_backend, port |-> 80] }
PathPrefixes == { S_api, <<>> }
Configs ==
    { [target |-> t, path_prefix |-> p] : t \in Targets, p \in PathPrefixes }

\* Request URIs: has_pq tells whether the URI has a path-and-query, pq is it.
Uris ==
    { [has_pq |-> TRUE,  pq |-> <<"/","a","p","i","/","u","s","e","r","s","?","i","d","=","5">>],
      [has_pq |-> TRUE,  pq |-> <<"/","u","s","e","r","s","?","i","d","=","5">>],
      [has_pq |-> TRUE,  pq |-> <<"/","a","p","i">>],
      [has_pq |-> FALSE, pq |-> <<>>] }

\* Header values are byte strings.
V_v   == <<118>>        \* "v"
V_w   == <<119>>        \* "w"
V_e   == <<195, 169>>   \* U+00E9 in UTF-8: text, but not ASCII
V_bin == <<255>>        \* a byte that is not text in any encoding

ReqHeaderPairs ==
    { [name |-> "host",              value |-> V_bin],
      [name |-> "content-length",    value |-> V_v],
      [name |-> "transfer-encoding", value |-> V_v],
      [name |-> "x-a",               value |-> V_v],
      [name |-> "x-a",               value |-> V_w],
      [name |-> "x-a",               value |-> V_bin],
      [name |-> "x-b",               value |-> V_v],
      [name |-> "x-b",               value |-> V_e] }

Requests ==
    { [uri |-> u, headers |-> h] : u \in Uris, h \in SeqsUpTo(ReqHeaderPairs, MaxHeaders) }

\* -------------------------------------------------------------- routing
\* Path of a URI: the part of the path-and-query before '?', "" when absent.
UriPath(uri) ==
    IF ~uri.has_pq THEN <<>>
    ELSE LET q == IndexOfAny(uri.pq, {"?"})
         IN  IF q = 0 THEN uri.pq ELSE SubSeq(uri.pq, 1, q - 1)

\* Faulty variant of ScopeMatches: the scope takes every request.
ScopeMatches_Any(prefix, uri) == TRUE

\* web::scope(prefix): the scope takes a request whose path starts with the
\* prefix at a segment boundary.  The request is handed on unchanged.
ScopeMatches(prefix, uri) ==
    LET p == UriPath(uri)
    IN  IF ~IsPrefixOf(prefix, p) THEN FALSE
        ELSE IF prefix = <<>> \/ Len(p) = Len(prefix) THEN TRUE
        ELSE p[Len(prefix) + 1] = "/"

\* ------------------------------------------------------- URL composition
\* req.uri().path_and_query().map(|pq| pq.as_str()).unwrap_or("")
PathAndQueryOrEmpty(uri) == IF uri.has_pq THEN uri.pq ELSE <<>>

\* Faulty variant of ComposeBackendUrl: the path alone, the query is lost.
ComposeBackendUrl_PathOnly(cfg, uri) ==
    cfg.target.protocol \o <<":","/","/">> \o cfg.target.host \o <<":">>
        \o ToDec(cfg.target.port) \o UriPath(uri)

\* format!("{}://{}:{}{}", protocol, host, port, path_and_query)
ComposeBackendUrl(cfg, uri) ==
    cfg.target.protocol \o <<":","/","/">> \o cfg.target.host \o <<":">>
        \o ToDec(cfg.target.port) \o PathAndQueryOrEmpty(uri)

\* ------------------------------------------------------------ URL parsing
SchemeChars == Letters \cup Digits \cup {"+", "-", "."}

RECURSIVE SkipSlashes(_)
SkipSlashes(s) ==
    IF s # <<>> /\ s[1] \in {"/", "\\"} THEN SkipSlashes(Tail(s)) ELSE s

\* reqwest::Url::parse for a string without a base URL.
UrlParse(s) ==
    LET c      == IndexOfAny(s, {":"})
        scheme == SubSeq(s, 1, c - 1)
    IN  IF \/ c = 0
           \/ scheme = <<>>
           \/ scheme[1] \notin Letters
           \/ \E i \in 1..Len(scheme) : scheme[i] \notin SchemeChars
        THEN [ok |-> FALSE, msg |-> "relative URL without a base"]
        ELSE LET rest  == SkipSlashes(Tail_From(s, c + 1))
                 e     == IndexOfAny(rest, {"/", "\\", "?", "#"})
                 auth  == IF e = 0 THEN rest ELSE SubSeq(rest, 1, e - 1)
                 k     == LastIndexOfAny(auth, {":"})
                 host  == IF k = 0 THEN auth ELSE SubSeq(auth, 1, k - 1)
                 port  == IF k = 0 THEN <<>> ELSE Tail_From(auth, k + 1)
             IN  IF host = <<>>
                 THEN [ok |-> FALSE, msg |-> "empty host"]
                 ELSE IF \E i \in 1..Len(port) : port[i] \notin Digits
                 THEN [ok |-> FALSE, msg |-> "invalid port number"]
                 ELSE [ok |-> TRUE, msg |-> ""]

\* ------------------------------------------------------------- the errors
ErrorKinds ==
    {"RequestBuilderError", "RequestError", "ResponseReadError",
     "InvalidHeader", "ResponseBodyConversionError", "ConfigError"}

\* #[error("...")]: the category of each variant.
Category(kind) ==
    CASE kind = "RequestBuilderError"         -> "request build failed"
      [] kind = "RequestError"                -> "proxy request failed"
      [] kind = "ResponseReadError"           -> "response body read error"
      [] kind = "InvalidHeader"               -> "invalid request header"
      [] kind = "ResponseBodyConversionError" -> "response body conversion error"
      [] kind = "ConfigError"                 -> "configuration error"

\* Display of a ProxyError: "<category>: {0}", the bare category for the
\* variant that carries nothing.
to_string(e) ==
    IF e.kind = "ResponseBodyConversionError" THEN Category(e.kind)
    ELSE Category(e.kind) \o ": " \o e.msg

JsonContentType == <<[name |-> "content-type", value |-> "application/json"]>>

\* Faulty variant of error_response: InvalidHeader answered with 500.
error_response_Header500(e) ==
    [status |-> 500, headers |-> JsonContentType,
     body |-> IF e.kind = "ResponseBodyConversionError"
              THEN [error |-> Category(e.kind)]
              ELSE [error |-> Category(e.kind), details |-> to_string(e)]]

\* ResponseError::error_response.  A JSON body is a record of its fields.
error_response(e) ==
    CASE e.kind = "RequestBuilderError" ->
            [status |-> 400, headers |-> JsonContentType,
             body |-> [error |-> "request build failed", details |-> to_string(e)]]
      [] e.kind = "RequestError" ->
            [status |-> 500, headers |-> JsonContentType,
             body |-> [error |-> "proxy request failed", details |-> to_string(e)]]
      [] e.kind = "ResponseReadError" ->
            [status |-> 500, headers |-> JsonContentType,
             body |-> [error |-> "response body read error", details |-> to_string(e)]]
      [] e.kind = "InvalidHeader" ->
            [status |-> 400, headers |-> JsonContentType,
             body |-> [error |-> "invalid request header", details |-> to_string(e)]]
      [] e.kind = "ResponseBodyConversionError" ->
            [status |-> 500, headers |-> JsonContentType,
             body |-> [error |-> "response body conversion error"]]
      [] e.kind = "ConfigError" ->
            [status |-> 500, headers |-> JsonContentType,
             body |-> [error |-> "configuration error", details |-> to_string(e)]]

\* -------------------------------------------------------- request headers
NamesOf(h) == {h[i].name : i \in 1..Len(h)}

RECURSIVE Grouped(_, _, _)
\* The pairs of h taken name by name in the order of names ord (from its
\* i-th name on), the values of one name in the order they were added.
Grouped(h, ord, i) ==
    IF i > Len(ord) THEN <<>>
    ELSE SelectSeq(h, LAMBDA x : x.name = ord[i]) \o Grouped(h, ord, i + 1)

\* req.headers() is actix's HeaderMap, a hash map from name to its values:
\* iteration visits the names in an arbitrary order and gives the values of
\* one name together, in the order they arrived.
HeaderIterations(h) ==
    LET ns == NamesOf(h)
        n  == Cardinality(ns)
    IN  { Grouped(h, ord, 1) :
            ord \in {o \in [1..n -> ns] : \A i, j \in 1..n : o[i] = o[j] => i = j} }

\* Faulty variant of CopiedRequestHeader: transfer-encoding is not skipped.
CopiedRequestHeader_KeepTE(name) ==
    name # "host" /\ name # "content-length"

\* key != "host" && key != "content-length" && key != "transfer-encoding"
CopiedRequestHeader(name) ==
    name # "host" /\ name # "content-length" /\ name # "transfer-encoding"

\* Faulty variant of to_str: every value passes as it is.
to_str_Unchecked(value) == [ok |-> TRUE, str |-> value]

\* HeaderValue::to_str: the value as &str when every byte is visible ASCII
\* (32..126) or a tab.
to_str(value) ==
    IF \A i \in 1..Len(value) : value[i] = 9 \/ (value[i] >= 32 /\ value[i] < 127)
    THEN [ok |-> TRUE, str |-> value]
    ELSE [ok |-> FALSE, str |-> <<>>]

\* build_proxy_request for the URL string and the headers in the order `it`
\* the loop meets them.
build_proxy_request(it, url) ==
    LET u   == UrlParse(url)
        bad == {i \in 1..Len(it) : CopiedRequestHeader(it[i].name) /\ ~to_str(it[i].value).ok}
    IN  IF ~u.ok
        THEN [ok |-> FALSE,
              err |-> [kind |-> "RequestBuilderError", msg |-> u.msg]]
        ELSE IF bad # {}
        THEN [ok |-> FALSE,
              err |-> [kind |-> "InvalidHeader",
                       msg  |-> it[CHOOSE i \in bad : \A j \in bad : i <= j].name]]
        ELSE [ok |-> TRUE,
              req |-> [url |-> url,
                       headers |->
                         [i \in 1..Len(SelectSeq(it, LAMBDA x : CopiedRequestHeader(x.name))) |->
                            LET x == SelectSeq(it, LAMBDA y : CopiedRequestHeader(y.name))[i]
                            IN  [name |-> x.name, value |-> to_str(x.value).str]]]]

\* ------------------------------------------------------- upstream values
Statuses == {200, 404}

RespHeaderPairs ==
    { [name |-> "content-length",    value |-> "2"],
      [name |-> "transfer-encoding", value |-> "chunked"],
      [name |-> "set-cookie",        value |-> "a"],
      [name |-> "set-cookie",        value |-> "b"],
      [name |-> "x-up",              value |-> "u"] }

\* What proxy_req.send().await gives: a transport failure, or the status
\* and the headers of the upstream response in the order they were received.
SendOutcomes ==
    { [ok |-> FALSE, msg |-> "error sending request", status |-> 0, headers |-> <<>>] }
    \cup { [ok |-> TRUE, msg |-> "", status |-> st, headers |-> h] :
             st \in Statuses, h \in SeqsUpTo(RespHeaderPairs, MaxRespHeaders) }

BodyBytes == {65, 195, 169, 255}

\* What response.bytes().await gives: a failure of the read, or the body.
BodyOutcomes ==
    { [ok |-> FALSE, msg |-> "error decoding response body", data |-> <<>>] }
    \cup { [ok |-> TRUE, msg |-> "", data |-> b] : b \in SeqsUpTo(BodyBytes, MaxBody) }

\* ------------------------------------------------------- response headers
RECURSIVE FirstSeen(_, _)
\* The distinct names of h in the order of their first occurrence.
FirstSeen(h, seen) ==
    IF h = <<>> THEN <<>>
    ELSE IF Head(h).name \in seen THEN FirstSeen(Tail(h), seen)
    ELSE <<Head(h).name>> \o FirstSeen(Tail(h), seen \cup {Head(h).name})

\* response.headers() is http's HeaderMap: iteration gives the names in the
\* order they first arrived and the values of one name together.
ResponseHeaderIteration(h) == Grouped(h, FirstSeen(h, {}), 1)

\* key != "content-length" && key != "transfer-encoding"
CopiedResponseHeader(name) ==
    name # "content-length" /\ name # "transfer-encoding"

\* HttpResponseBuilder::insert_header: the pair replaces every pair already
\* set under the same name.
insert_header(hs, pair) ==
    SelectSeq(hs, LAMBDA x : x.name # pair.name) \o <<pair>>

RECURSIVE CopyResponseHeaders(_, _)
\* The loop over response.headers(): insert_header for every copied pair.
CopyResponseHeaders(it, hs) ==
    IF it = <<>> THEN hs
    ELSE CopyResponseHeaders(Tail(it),
            IF CopiedResponseHeader(Head(it).name) THEN insert_header(hs, Head(it)) ELSE hs)

\* ------------------------------------------------------------------ UTF-8
IsCont(x) == x >= 128 /\ x <= 191

RECURSIVE Utf8From(_, _)
\* Whether the bytes of b from index i on are well-formed UTF-8.
Utf8From(b, i) ==
    IF i > Len(b) THEN TRUE
    ELSE LET x == b[i]
         IN  IF x < 128 THEN Utf8From(b, i + 1)
             ELSE IF x >= 194 /\ x <= 223
             THEN i + 1 <= Len(b) /\ IsCont(b[i + 1]) /\ Utf8From(b, i + 2)
             ELSE IF x >= 224 /\ x <= 239
             THEN /\ i + 2 <= Len(b)
                  /\ IsCont(b[i + 1]) /\ IsCont(b[i + 2])
                  /\ (x = 224 => b[i + 1] >= 160)
                  /\ (x = 237 => b[i + 1] <= 159)
                  /\ Utf8From(b, i + 3)
             ELSE IF x >= 240 /\ x <= 244
             THEN /\ i + 3 <= Len(b)
                  /\ IsCont(b[i + 1]) /\ IsCont(b[i + 2]) /\ IsCont(b[i + 3])
                  /\ (x = 240 => b[i + 1] >= 144)
                  /\ (x = 244 => b[i + 1] <= 143)
                  /\ Utf8From(b, i + 4)
             ELSE FALSE

\* Faulty variant of from_utf8_ok: only ASCII passes.
from_utf8_ok_AsciiOnly(b) == \A i \in 1..Len(b) : b[i] < 128

\* Faulty variant of from_utf8_ok: a lossy conversion, which never fails.
from_utf8_ok_Lossy(b) == TRUE

\* String::from_utf8(bytes.to_vec()).is_ok()
from_utf8_ok(b) == Utf8From(b, 1)

\* client_resp.body(bytes): the builder's status and headers with the body.
body(builder, b) ==
    [status |-> builder.status, headers |-> builder.headers, body |-> [bytes |-> b]]

\* -------------------------------------------------------------- the steps
Init ==
    /\ config \in Configs
    /\ pc = "Idle"
    /\ req = NoValue
    /\ backend_url = <<>>
    /\ proxy_req = NoValue
    /\ upstream = NoValue
    /\ client_resp = NoValue
    /\ bytes = NoValue
    /\ err = NoValue
    /\ ran = <<>>
    /\ sendCount = 0
    /\ responses = <<>>

\* The handler returns Err(e): the framework answers with e.error_response().
Fail(e) ==
    /\ pc' = "Failed"
    /\ err' = e
    /\ responses' = Append(responses, error_response(e))

\* The scope hands a request under the path prefix to proxy_handler, which
\* composes the target URL.  Requests outside the scope never reach it.
Receive ==
    /\ pc = "Idle"
    /\ \E r \in Requests :
         /\ ScopeMatches(config.path_prefix, r.uri)
         /\ req' = r
         /\ backend_url' = ComposeBackendUrl(config, r.uri)
    /\ pc' = "Received"
    /\ ran' = Append(ran, "compose")
    /\ UNCHANGED <<config, proxy_req, upstream, client_resp, bytes, err,
                   sendCount, responses>>

\* build_proxy_request(&req, &body, &backend_url, &client).await?
Transform ==
    /\ pc = "Received"
    /\ ran' = Append(ran, "transform")
    /\ \E it \in HeaderIterations(req.headers) :
         LET r == build_proxy_request(it, backend_url)
         IN  IF r.ok
             THEN /\ proxy_req' = r.req
                  /\ pc' = "Transformed"
                  /\ UNCHANGED <<err, responses>>
             ELSE /\ Fail(r.err)
                  /\ UNCHANGED proxy_req
    /\ UNCHANGED <<config, req, backend_url, upstream, client_resp, bytes, sendCount>>

\* Faulty variant of SendReached: the Err of build_proxy_request is dropped
\* instead of returned, and the handler goes on to send.
SendReached_ErrIgnored(p, stages) ==
    p = "Transformed" \/ (p = "Failed" /\ Len(stages) = 2)

\* The `?` on build_proxy_request: send() is reached only with its Ok value.
SendReached(p, stages) == p = "Transformed"

\* proxy_req.send().await?, then the status and the header loop.  send()
\* takes the builder by value, and req is not read again: both are let go.
Forward ==
    /\ SendReached(pc, ran)
    /\ ran' = Append(ran, "send")
    /\ sendCount' = sendCount + 1
    /\ req' = NoValue
    /\ proxy_req' = NoValue
    /\ \E o \in SendOutcomes :
         IF o.ok
         THEN /\ upstream' = [status |-> o.status, headers |-> o.headers]
              /\ client_resp' =
                    [status  |-> o.status,
                     headers |-> CopyResponseHeaders(ResponseHeaderIteration(o.headers), <<>>)]
              /\ pc' = "Forwarded"
              /\ UNCHANGED <<err, responses>>
         ELSE /\ Fail([kind |-> "RequestError", msg |-> o.msg])
              /\ UNCHANGED <<upstream, client_resp>>
    /\ UNCHANGED <<config, backend_url, bytes>>

\* response.bytes().await.map_err(ProxyError::RequestError)?, then the UTF-8
\* test and the return.
ReadBody ==
    /\ pc = "Forwarded"
    /\ ran' = Append(ran, "read")
    /\ \E o \in BodyOutcomes :
         IF ~o.ok
         THEN /\ Fail([kind |-> "RequestError", msg |-> o.msg])
              /\ UNCHANGED bytes
         ELSE /\ bytes' = [data |-> o.data]
              /\ IF from_utf8_ok(o.data)
                 THEN /\ pc' = "Completed"
                      /\ responses' = Append(responses, body(client_resp, o.data))
                      /\ UNCHANGED err
                 ELSE Fail([kind |-> "ResponseBodyConversionError", msg |-> ""])
    /\ UNCHANGED <<config, req, backend_url, proxy_req, upstream, client_resp, sendCount>>

Next == Receive \/ Transform \/ Forward \/ ReadBody

Spec == Init /\ [][Next]_vars

\* ================================================================ claims
\* "{protocol}://{host}:{port}" of the configuration, the port in decimal.
TargetBase ==
    config.target.protocol \o <<":","/","/">> \o config.target.host
        \o <<":">> \o ToDec(config.target.port)

ScenarioTarget == [protocol |-> S_http, host |-> S_backend, port |-> 9000]
ScenarioBase ==
    <<"h","t","t","p",":","/","/","b","a","c","k","e","n","d",":","9","0","0","0">>
FullUsersUri == <<"/","a","p","i","/","u","s","e","r","s","?","i","d","=","5">>
UsersUri     == <<"/","u","s","e","r","s","?","i","d","=","5">>

\* The handler holds the inbound request and has composed the target URL.
Composed == pc # "Idle" /\ req # NoValue

\* C1: the target URL handed to build_proxy_request is protocol "://" host
\* ":" port followed by the inbound path-and-query verbatim, or by nothing
\* when the URI has none; with target http://backend:9000 the base is
\* exactly "http://backend:9000".
C1_Theorem ==
    Composed =>
        /\ backend_url =
              TargetBase \o (IF req.uri.has_pq THEN req.uri.pq ELSE <<>>)
        /\ config.target = ScenarioTarget =>
              /\ IsPrefixOf(ScenarioBase, backend_url)
              /\ Len(backend_url) = Len(ScenarioBase)
                    + (IF req.uri.has_pq THEN Len(req.uri.pq) ELSE 0)

C1_Witness ==
    /\ pc = "Received"
    /\ req.uri.has_pq
    /\ req.uri.pq = UsersUri
    /\ backend_url = ScenarioBase \o UsersUri

\* The path-and-query with the configured prefix taken off its front.
StripPrefix(uri, prefix) ==
    IF uri.has_pq /\ IsPrefixOf(prefix, uri.pq)
    THEN Tail_From(uri.pq, Len(prefix) + 1)
    ELSE PathAndQueryOrEmpty(uri)

\* C2 as stated: the path prefix is stripped and only the remainder of the
\* inbound path-and-query is forwarded.
C2_Original ==
    Composed => backend_url = TargetBase \o StripPrefix(req.uri, config.path_prefix)

\* C2 as amended: the path prefix is kept.  Every request the scope hands to
\* the handler is forwarded with its whole inbound path, which begins with
\* the configured prefix; /api/users?id=5 under prefix /api and target
\* http://backend:9000 goes to http://backend:9000/api/users?id=5.
C2_Theorem ==
    Composed =>
        /\ IsPrefixOf(TargetBase \o config.path_prefix, backend_url)
        /\ (config.target = ScenarioTarget /\ config.path_prefix = S_api
              /\ req.uri.has_pq /\ req.uri.pq = FullUsersUri)
             => backend_url = ScenarioBase \o S_api \o UsersUri

C2_Witness ==
    /\ pc = "Received"
    /\ config.path_prefix = S_api
    /\ req.uri.has_pq
    /\ backend_url = ScenarioBase \o S_api \o UsersUri

\* The pairs of h named n, in their order in h.
Named(h, n) == SelectSeq(h, LAMBDA x : x.name = n)

RequestHeaderNames == {p.name : p \in ReqHeaderPairs}
SkippedRequestNames == {"host", "content-length", "transfer-encoding"}

\* The header values of the model that are not visible ASCII text.
NotAsciiText(v) == v \in {V_e, V_bin}

\* build_proxy_request has returned the outbound request.
Built == pc = "Transformed" /\ req # NoValue /\ proxy_req # NoValue

\* C3 as stated: when every inbound value is text, the outbound header
\* sequence is the inbound sequence without host, content-length and
\* transfer-encoding, everything else unmodified and in the original order.
C3_Original ==
    (Built /\ \A i \in 1..Len(req.headers) : ~NotAsciiText(req.headers[i].value))
        => proxy_req.headers =
             SelectSeq(req.headers, LAMBDA x : x.name \notin SkippedRequestNames)

\* C3 as amended: whenever build_proxy_request succeeds, the outbound
\* headers are the inbound ones without exactly host, content-length and
\* transfer-encoding; every other pair is there unmodified, as often as it
\* came in, and the values of one name keep their order.  The order between
\* different names is not kept.
C3_Theorem ==
    Built =>
        /\ Len(proxy_req.headers) =
              Len(SelectSeq(req.headers, LAMBDA x : x.name \notin SkippedRequestNames))
        /\ \A n \in RequestHeaderNames :
              Named(proxy_req.headers, n) =
                 IF n \in SkippedRequestNames THEN <<>> ELSE Named(req.headers, n)

C3_Witness ==
    /\ Built
    /\ \E i \in 1..Len(req.headers) : req.headers[i].name \in SkippedRequestNames
    /\ proxy_req.headers = <<[name |-> "x-a", value |-> V_w]>>

\* The names of the inbound headers the loop copies whose value is not text.
OffendingNames ==
    { req.headers[i].name : i \in
        { j \in 1..Len(req.headers) :
            /\ req.headers[j].name \notin SkippedRequestNames
            /\ NotAsciiText(req.headers[j].value) } }

\* build_proxy_request has run on the request the handler still holds.
TransformRan == req # NoValue /\ Len(ran) >= 2

\* C9 as stated, for a target URL that parses: a request with any header,
\* whatever its name, whose value is not text fails with InvalidHeader naming
\* that header, status 400.
C9_Original ==
    (/\ TransformRan
     /\ UrlParse(backend_url).ok
     /\ \E i \in 1..Len(req.headers) : NotAsciiText(req.headers[i].value))
        => /\ pc = "Failed"
           /\ err.kind = "InvalidHeader"
           /\ \E i \in 1..Len(req.headers) :
                 NotAsciiText(req.headers[i].value) /\ err.msg = req.headers[i].name
           /\ responses[1].status = 400

\* C9 as amended: when the target URL parses, a request with a header other
\* than host, content-length and transfer-encoding whose value has a byte
\* that is not visible ASCII or tab fails with InvalidHeader naming such a
\* header, status 400.  The values of the three skipped headers are never
\* looked at.
C9_Theorem ==
    (TransformRan /\ UrlParse(backend_url).ok /\ OffendingNames # {})
        => /\ pc = "Failed"
           /\ err.kind = "InvalidHeader"
           /\ err.msg \in OffendingNames
           /\ Len(responses) = 1
           /\ responses[1].status = 400

C9_Witness ==
    /\ TransformRan
    /\ pc = "Failed"
    /\ err = [kind |-> "InvalidHeader", msg |-> "x-b"]
    /\ "x-a" \in OffendingNames
    /\ responses[1].status = 400

\* Number of places of the sequence h that hold x.
Count(h, x) == Cardinality({i \in 1..Len(h) : h[i] = x})

\* The response was relayed: the handler returned Ok.
Relayed == pc = "Completed" /\ Len(responses) = 1

\* C4: the headers of a relayed response are the upstream headers without
\* content-length and transfer-encoding, every occurrence of every other
\* header included.
C4_Original ==
    Relayed =>
        \A x \in RespHeaderPairs :
            Count(responses[1].headers, x) =
               IF x.name \in {"content-length", "transfer-encoding"} THEN 0
               ELSE Count(upstream.headers, x)

RECURSIVE IsUtf8Text(_)
\* The byte strings over BodyBytes that are UTF-8: the concatenations of
\* "A" (65) and U+00E9 (195 169).
IsUtf8Text(b) ==
    IF b = <<>> THEN TRUE
    ELSE IF b[1] = 65 THEN IsUtf8Text(Tail(b))
    ELSE IF Len(b) >= 2 /\ b[1] = 195 /\ b[2] = 169 THEN IsUtf8Text(Tail(Tail(b)))
    ELSE FALSE

\* C5: an upstream body that is valid UTF-8, of any length and under any
\* status, is relayed: the response has the upstream status and the same
\* bytes, and is no proxy error.
C5_Theorem ==
    (bytes # NoValue /\ IsUtf8Text(bytes.data))
        => /\ pc = "Completed"
           /\ err = NoValue
           /\ Len(responses) = 1
           /\ responses[1].status = upstream.status
           /\ responses[1].body = [bytes |-> bytes.data]

C5_Witness ==
    /\ pc = "Completed"
    /\ upstream.status = 404
    /\ bytes = [data |-> <<195, 169>>]
    /\ responses[1].status = 404
    /\ responses[1].body.bytes = <<195, 169>>

\* C6: an upstream body that is not valid UTF-8 discards the upstream
\* response under any status: the caller gets 500 with a JSON body holding
\* the category of ResponseBodyConversionError alone, no details, and
\* nothing of the upstream status, headers or body.
C6_Theorem ==
    (bytes # NoValue /\ ~IsUtf8Text(bytes.data))
        => /\ pc = "Failed"
           /\ err.kind = "ResponseBodyConversionError"
           /\ responses =
                 << [status  |-> 500,
                     headers |-> <<[name |-> "content-type", value |-> "application/json"]>>,
                     body    |-> [error |-> "response body conversion error"]] >>

C6_Witness ==
    /\ pc = "Failed"
    /\ upstream # NoValue
    /\ upstream.status = 200
    /\ upstream.headers # <<>>
    /\ bytes = [data |-> <<65, 255>>]
    /\ responses[1].status = 500
    /\ DOMAIN responses[1].body = {"error"}

\* The status the error table gives each kind.
TableStatus(kind) ==
    IF kind \in {"RequestBuilderError", "InvalidHeader"} THEN 400 ELSE 500

\* The response r is the structured error of kind k with message m.
IsErrorResponse(r, k, m) ==
    /\ r.status = TableStatus(k)
    /\ r.body.error = Category(k)
    /\ IF k = "ResponseBodyConversionError"
       THEN DOMAIN r.body = {"error"}
       ELSE /\ DOMAIN r.body = {"error", "details"}
            /\ r.body.details = Category(k) \o ": " \o m

ErrorMessages == {"empty host", "x-a", "error sending request", ""}

\* C7: every failure of the handler is answered with the structured JSON
\* error of its kind: 400 for RequestBuilderError and InvalidHeader, 500 for
\* the other four, with the category and, except for
\* ResponseBodyConversionError, the details; no failure goes unanswered.
C7_Theorem ==
    /\ \A k \in ErrorKinds, m \in ErrorMessages :
          IsErrorResponse(error_response([kind |-> k, msg |-> m]), k, m)
    /\ pc = "Failed" =>
          /\ err # NoValue
          /\ err.kind \in ErrorKinds
          /\ Len(responses) = 1
          /\ IsErrorResponse(responses[1], err.kind, err.msg)

C7_Witness ==
    /\ pc = "Failed"
    /\ err = [kind |-> "RequestError", msg |-> "error sending request"]
    /\ responses[1].status = 500
    /\ responses[1].body.details = "proxy request failed: error sending request"

\* The send succeeded and reading the body then failed.
BodyReadFailed ==
    pc = "Failed" /\ Len(ran) = 4 /\ upstream # NoValue /\ bytes = NoValue

\* C8: a failure of the body read after a successful send is a
\* ResponseReadError, category "response body read error", status 500.
C8_Original ==
    BodyReadFailed =>
        /\ err.kind = "ResponseReadError"
        /\ responses[1].body.error = "response body read error"
        /\ responses[1].status = 500

Stages == <<"compose", "transform", "send", "read">>

\* C10: the stages run in order and stop at the first failure.  A failure
\* of build_proxy_request (RequestBuilderError, InvalidHeader) means the
\* request is never sent; a request is sent at most once; and the caller
\* gets exactly one response when the handler ends, none before: the whole
\* relayed response or the whole JSON error, never a mix.
C10_Theorem ==
    /\ Len(ran) <= 4 /\ ran = SubSeq(Stages, 1, Len(ran))
    /\ sendCount = (IF Len(ran) >= 3 THEN 1 ELSE 0)
    /\ Len(responses) = (IF pc \in {"Completed", "Failed"} THEN 1 ELSE 0)
    /\ pc = "Failed" =>
          /\ responses[1] = error_response(err)
          /\ "bytes" \notin DOMAIN responses[1].body
          /\ responses[1].headers = JsonContentType
          /\ err.kind \in {"RequestBuilderError", "InvalidHeader"}
                => Len(ran) = 2 /\ sendCount = 0 /\ upstream = NoValue
          /\ err.kind = "RequestError" => Len(ran) \in {3, 4}
          /\ err.kind = "ResponseBodyConversionError" => Len(ran) = 4
          /\ Len(ran) < 4 => bytes = NoValue
          /\ Len(ran) < 3 => upstream = NoValue /\ client_resp = NoValue
    /\ pc = "Completed" =>
          /\ Len(ran) = 4
          /\ err = NoValue
          /\ DOMAIN responses[1].body = {"bytes"}
          /\ responses[1] = body(client_resp, bytes.data)

C10_Witness ==
    /\ pc = "Failed"
    /\ err = [kind |-> "RequestBuilderError", msg |-> "empty host"]
    /\ config.target.host = <<>>
    /\ sendCount = 0
    /\ Len(responses) = 1

====
